---- MODULE Spec2Model ----
(***************************************************************************)
(* Entity canonicalization of unsealed-networks: the entity store, the     *)
(* canonical graph (canonical_entities + entity_aliases), merge_entities,  *)
(* and the two batch drivers batch_auto_merge and batch_llm_review, with    *)
(* the candidate finder, the confidence scorer and the merge report.       *)
(*                                                                         *)
(* Confidences are Python floats and REAL columns in the source; here they *)
(* are doubles in the integer encoding of the section on double arithmetic *)
(* (0.95 is Double(95)).  Timestamps (merged_at, updated_at) are left out: *)
(* no modelled operation reads them.                                       *)
(***************************************************************************)
EXTENDS Integers, Sequences, FiniteSets, TLC

\* ---------------------------------------------------------------- bounds
MaxEntities == 3
MaxCount == 2
MaxDocEntities == 2
MaxCandidates == 2
MaxFaults == 1
MaxBatches == 1
MaxEditDistance == 4
MaxTokens == 10

\* Program constant: initialize_canonical_entities commits every 1000 rows.
CommitEvery == 1000

\* ------------------------------------------------------- double arithmetic
\* Confidences are Python floats (IEEE 754 doubles).  A double x near h
\* hundredths is the integer h * Scale + r, where r is the exact remainder
\* x - h/100 in units of 1/(100 * 2^Frac): the encoding is exact for the
\* doubles from 2^-5 to 2 (and for 0.0), and its integer order is the order
\* of the doubles.
Scale == 100 * 1000

Frac == 50 + 7

Hundredths(x) == (x + (Scale \div 2)) \div Scale

Remainder(x) == x - Hundredths(x) * Scale

RECURSIVE PowMod(_, _)
PowMod(n, m) == IF n = 0 THEN 1 % m ELSE (2 * PowMod(n - 1, m)) % m

\* The spacing of the doubles around the exact value h/100 + r units, in units
\* of 2^-Frac: 2^-52 from 1.0 on, 2^-53 from 0.5 on, and so on down.
Ulp(h, r) ==
  IF h > 100 \/ (h = 100 /\ r >= 0) THEN 32
  ELSE IF h > 50 \/ (h = 50 /\ r >= 0) THEN 16
  ELSE IF h > 25 \/ (h = 25 /\ r >= 0) THEN 8
  ELSE IF h > 12 THEN 4
  ELSE IF h > 6 THEN 2
  ELSE 1

\* Round to nearest, ties to even, of the exact value (h, r).
RoundDouble(h, r) ==
  LET m == 100 * Ulp(h, r)
      n2 == (h * PowMod(Frac, 2 * m) + r) % (2 * m)
      q == n2 % m
      down == r - q
      up == r - q + m
      r2 == IF 2 * q < m THEN down
            ELSE IF 2 * q > m THEN up
            ELSE IF n2 = q THEN down ELSE up
  IN h * Scale + r2

\* The double a decimal literal with two places denotes (0.95 is Double(95)),
\* for the literals from 0.00 to 1.50.
Literals == [h \in 0..150 |-> RoundDouble(h, 0)]

Double(h) == Literals[h]

\* x + y and x - y of two doubles.
FAdd(x, y) == RoundDouble(Hundredths(x) + Hundredths(y), Remainder(x) + Remainder(y))

FSub(x, y) == RoundDouble(Hundredths(x) - Hundredths(y), Remainder(x) - Remainder(y))

\* Normalized (text, type) pairs an extraction can observe.  The store only
\* compares them for equality, so they are named in the order of their first
\* appearance: with n rows stored, an observation is of one of the keys 1..n
\* or of the new key n + 1.
Keys == 1..(MaxEntities + 1)
\* Entity ids a candidates file or a caller can name: the ids the store can
\* hold and one id that is never stored.
EntityIds == 1..(MaxEntities + 1)
\* Canonical ids a caller can name: the ids AUTOINCREMENT can hand out
\* within the bounds and one that never exists.
CanonicalIds == 1..(MaxEntities + 1)
\* Confidence values (hundredths) found in a candidates file.
FileConfidences == {Double(85), Double(100)}
\* min_confidence values a batch is started with: the default of
\* batch_auto_merge and the default of batch_llm_review.
MinConfidences(kind) == IF kind = "auto" THEN {Double(95)} ELSE {Double(80)}

VARIABLES db, conn, batch, last, report, txn, manifest

vars == <<db, conn, batch, last, report, txn, manifest>>

\* ------------------------------------------------------------ the store
\* txn holds the merge_entities executions that run at the same time, each
\* on a connection of its own, and manifest the steps of a document's
\* manifest file; they have sections of their own below.
\* db is the committed SQLite database:
\*   entities            sequence indexed by entity_id (AUTOINCREMENT, rows are
\*                       never deleted) of [key, occurrence_count]
\*   canonical_entities  canonical_id -> [canonical_text, total_mentions]
\*   entity_aliases      entity_id -> alias row
\*   seq                 sqlite_sequence of canonical_entities
\* conn is what the open connection sees: db plus its uncommitted writes.
\* report is the candidates file generate_merge_report has written, if any.

EmptyDb ==
  [entities |-> <<>>,
   canonical_entities |-> <<>>,
   entity_aliases |-> <<>>,
   seq |-> 0]

Live(d) == DOMAIN d.canonical_entities

Aliased(d) == DOMAIN d.entity_aliases

Members(d, c) == {e \in Aliased(d) : d.entity_aliases[e].canonical_id = c}

RECURSIVE SumOver(_, _)
SumOver(f, S) ==
  IF S = {} THEN 0
  ELSE LET x == CHOOSE y \in S : TRUE
       IN f[x] + SumOver(f, S \ {x})

TotalMentions(d) ==
  SumOver([c \in Live(d) |-> d.canonical_entities[c].total_mentions], Live(d))

TotalOccurrences(d) ==
  SumOver([e \in DOMAIN d.entities |-> d.entities[e].occurrence_count],
          DOMAIN d.entities)

MemberOccurrences(d, c) ==
  LET S == Members(d, c) \cap DOMAIN d.entities
  IN SumOver([e \in S |-> d.entities[e].occurrence_count], S)

\* The record of the last call, for properties that speak of a call's
\* arguments and result; e1 and e2 are the entity ids of a batch's candidate,
\* order is how the two counts recorded for them compare, confidence is the
\* candidate's confidence, oracle what the oracle call came to and
\* llm_confidence the confidence of the decision.
NoCall ==
  [op |-> "none", caller |-> "none", source |-> 0, target |-> 0,
   status |-> "none", source_canonical_id |-> 0, orphaned |-> FALSE,
   e1 |-> 0, e2 |-> 0, order |-> "none", confidence |-> 0, oracle |-> "none",
   llm_confidence |-> 0]

\* A merge that raised after its first write: the rows it was to change, as
\* they were before it started, and whether a later merge of the same batch
\* has written the row since.
NoFailed ==
  [present |-> FALSE, source |-> 0, alias |-> <<>>, sc |-> 0, sc_row |-> <<>>,
   tc |-> 0, tc_row |-> <<>>, alias_ok |-> FALSE, sc_ok |-> FALSE,
   tc_ok |-> FALSE]

\* The running batch: its parameters, the length of the filtered candidate
\* list, the number of candidates handled, and the stats counters (the stats
\* returned are those of the state with done = total).  faults counts the
\* statements that have raised and runs the batches started in the whole
\* behaviour, and are what MaxFaults and MaxBatches bound; failed outlives the batch's return, up to the start of the next batch.
NoBatch ==
  [active |-> FALSE, kind |-> "none", dry_run |-> FALSE, min_confidence |-> 0,
   max_confidence |-> 0, total |-> 0, done |-> 0, merged |-> 0, errors |-> 0, skipped |-> 0,
   reviewed |-> 0, approved |-> 0, rejected |-> 0, faults |-> 0,
   runs |-> 0, failed |-> NoFailed]

\* ------------------------------------------------- extract_and_store_entities
\* One observation: the SELECT by (normalized_text, type), then the UPDATE of
\* occurrence_count or the INSERT of a new row with occurrence_count 1.
ExistingEntity(ents, k) == {e \in DOMAIN ents : ents[e].key = k}

\* StoreEntity without the SELECT: every observation inserts a row.
StoreEntity_Insert(ents, k) == Append(ents, [key |-> k, occurrence_count |-> 1])

StoreEntity(ents, k) ==
  IF ExistingEntity(ents, k) # {}
  THEN LET e == CHOOSE x \in ExistingEntity(ents, k) : TRUE
       IN [ents EXCEPT ![e].occurrence_count = @ + 1]
  ELSE Append(ents, [key |-> k, occurrence_count |-> 1])

RECURSIVE StoreEntities(_, _)
StoreEntities(ents, obs) ==
  IF Len(obs) = 0 THEN ents
  ELSE StoreEntities(StoreEntity(ents, Head(obs)), Tail(obs))

Documents == UNION {[1..n -> Keys] : n \in 1..MaxDocEntities}

RECURSIVE FirstSeenOrder(_, _)
FirstSeenOrder(n, obs) ==
  IF Len(obs) = 0 THEN TRUE
  ELSE /\ Head(obs) <= n + 1
       /\ FirstSeenOrder(IF Head(obs) = n + 1 THEN n + 1 ELSE n, Tail(obs))

extract_and_store_entities(doc) ==
  LET ents == StoreEntities(db.entities, doc)
  IN /\ ~batch.active
     /\ FirstSeenOrder(Len(db.entities), doc)
     /\ Len(ents) <= MaxEntities
     /\ \A e \in DOMAIN ents : ents[e].occurrence_count <= MaxCount
     /\ db' = [db EXCEPT !.entities = ents]
     /\ conn' = db'
     /\ last' = [NoCall EXCEPT !.op = "extract_and_store_entities"]
                @@ [doc |-> doc]
     /\ UNCHANGED <<batch, report, txn, manifest>>

\* ------------------------------------------------ initialize_canonical_entities
InitialAlias(c) ==
  [canonical_id |-> c, is_canonical |-> TRUE, merge_method |-> "initial",
   merge_confidence |-> Double(100), merged_by |-> "system"]

\* The loop over the entities read at the start, from entity i on: v is the
\* connection's view, committed the last committed view.  The INSERT into
\* entity_aliases raises IntegrityError on an entity_id that has a row
\* (PRIMARY KEY); `stop` is the number of entities after which the run is
\* interrupted (Len(entities) or more: it is not).
RECURSIVE InitLoop(_, _, _, _, _)
InitLoop(v, committed, i, created, stop) ==
  IF i > Len(v.entities)
  THEN [db |-> v, status |-> "initialized"]
  ELSE IF created >= stop
  THEN [db |-> committed, status |-> "interrupted"]
  ELSE IF i \in Aliased(v)
  THEN [db |-> committed, status |-> "IntegrityError"]
  ELSE LET c == v.seq + 1
           v2 == [v EXCEPT
                    !.seq = c,
                    !.canonical_entities =
                       [x \in Live(v) \cup {c} |->
                          IF x = c
                          THEN [canonical_text |-> v.entities[i].key,
                                total_mentions |-> v.entities[i].occurrence_count]
                          ELSE v.canonical_entities[x]],
                    !.entity_aliases =
                       [x \in Aliased(v) \cup {i} |->
                          IF x = i THEN InitialAlias(c) ELSE v.entity_aliases[x]]]
       IN InitLoop(v2,
                   IF (created + 1) % CommitEvery = 0 THEN v2 ELSE committed,
                   i + 1, created + 1, stop)

InitializeRun(d, stop) ==
  IF Cardinality(Live(d)) > 0
  THEN [db |-> d, status |-> "already_initialized"]
  ELSE InitLoop(d, d, 1, 0, stop)

initialize_canonical_entities(stop) ==
  LET r == InitializeRun(db, stop)
  IN /\ ~batch.active
     /\ db' = r.db
     /\ conn' = db'
     /\ last' = [NoCall EXCEPT !.op = "initialize_canonical_entities",
                               !.status = r.status]
     /\ UNCHANGED <<batch, report, txn, manifest>>

\* ---------------------------------------------------------------- merge_entities
\* The statements of merge_entities, numbered in program order:
\*   1 SELECT alias   2 SELECT entity   3 UPDATE alias   4 UPDATE target
\*   5 UPDATE source  6 SELECT COUNT    7 DELETE orphan  8 commit
\* failAt = k: statement k raises (sqlite3.Error) after statements 1..k-1 ran;
\* failAt = 0: none does.
Statements == 1..8

FailPoints == {0} \cup Statements

NoFailure(failAt) == failAt = 0

\* AlreadyMapped with the comparison lost: every call goes on to write.
AlreadyMapped_Never(source_canonical_id, target_canonical_id) == FALSE

AlreadyMapped(source_canonical_id, target_canonical_id) ==
  source_canonical_id = target_canonical_id

UpdateAlias(v, source_entity_id, target_canonical_id, method, confidence, merged_by) ==
  [v EXCEPT !.entity_aliases[source_entity_id] =
     [canonical_id |-> target_canonical_id, is_canonical |-> FALSE,
      merge_method |-> method, merge_confidence |-> confidence,
      merged_by |-> merged_by]]

\* UPDATE canonical_entities SET total_mentions = total_mentions + n
\* WHERE canonical_id = c: no row, no change, no error.
AddMentions(v, c, n) ==
  IF c \in Live(v)
  THEN [v EXCEPT !.canonical_entities[c].total_mentions = @ + n]
  ELSE v

\* IncrementTarget with the UPDATE of the target canonical left out.
IncrementTarget_NoOp(v, target_canonical_id, n) == v

IncrementTarget(v, target_canonical_id, n) == AddMentions(v, target_canonical_id, n)

\* DecrementSource with the UPDATE of the source canonical left out.
DecrementSource_NoOp(v, source_canonical_id, n) == v

DecrementSource(v, source_canonical_id, n) == AddMentions(v, source_canonical_id, 0 - n)

Remaining(v, source_canonical_id) == Cardinality(Members(v, source_canonical_id))

DeleteCanonical(v, c) ==
  [v EXCEPT !.canonical_entities = [x \in Live(v) \ {c} |-> v.canonical_entities[x]]]

\* DeleteOrphan with the DELETE left out.
DeleteOrphan_Never(v, source_canonical_id, remaining) == v

DeleteOrphan(v, source_canonical_id, remaining) ==
  IF remaining = 0 THEN DeleteCanonical(v, source_canonical_id) ELSE v

Raised(v, error, sc) ==
  [view |-> v, commit |-> FALSE, status |-> error,
   source_canonical_id |-> sc, orphaned |-> FALSE]

merge_entities(v, source_entity_id, target_canonical_id, method, confidence, merged_by, failAt) ==
  IF failAt = 1 THEN Raised(v, "sqlite3.Error", 0)
  ELSE IF source_entity_id \notin Aliased(v) THEN Raised(v, "ValueError", 0)
  ELSE
  LET sc == v.entity_aliases[source_entity_id].canonical_id
  IN
  IF AlreadyMapped(sc, target_canonical_id)
  THEN [view |-> v, commit |-> FALSE, status |-> "already_merged",
        source_canonical_id |-> sc, orphaned |-> FALSE]
  ELSE IF failAt \in {2, 3} THEN Raised(v, "sqlite3.Error", sc)
  ELSE
  LET v3 == UpdateAlias(v, source_entity_id, target_canonical_id, method,
                        confidence, merged_by)
  IN
  \* source_entity["occurrence_count"] with no entities row: TypeError
  IF source_entity_id \notin DOMAIN v.entities THEN Raised(v3, "TypeError", sc)
  ELSE IF failAt = 4 THEN Raised(v3, "sqlite3.Error", sc)
  ELSE
  LET n == v.entities[source_entity_id].occurrence_count
      v4 == IncrementTarget(v3, target_canonical_id, n)
  IN
  IF failAt = 5 THEN Raised(v4, "sqlite3.Error", sc)
  ELSE
  LET v5 == DecrementSource(v4, sc, n)
  IN
  IF failAt = 6 THEN Raised(v5, "sqlite3.Error", sc)
  ELSE
  LET remaining == Remaining(v5, sc)
  IN
  IF failAt = 7 /\ remaining = 0 THEN Raised(v5, "sqlite3.Error", sc)
  ELSE
  LET v7 == DeleteOrphan(v5, sc, remaining)
  IN
  IF failAt = 8 THEN Raised(v7, "sqlite3.Error", sc)
  ELSE [view |-> v7, commit |-> TRUE, status |-> "merged",
        source_canonical_id |-> sc, orphaned |-> remaining = 0]

\* A caller that opens a connection, calls merge_entities once with the
\* default method/confidence/merged_by and closes the connection.
MergeCall(source_entity_id, target_canonical_id) ==
  LET r == merge_entities(db, source_entity_id, target_canonical_id,
                          "manual", Double(100), "user", 0)
  IN /\ ~batch.active
     /\ db' = IF r.commit THEN r.view ELSE db
     /\ conn' = db'
     /\ last' = [NoCall EXCEPT !.op = "merge_entities", !.caller = "direct",
                               !.source = source_entity_id,
                               !.target = target_canonical_id,
                               !.status = r.status,
                               !.source_canonical_id = r.source_canonical_id,
                               !.orphaned = r.orphaned]
     /\ UNCHANGED <<batch, report, txn, manifest>>

\* ------------------------------------------- merge_entities, unserialized
\* Two callers, each with a connection of its own to the same database file,
\* run merge_entities statement by statement.  pc is the statement a caller
\* executes next (0: not called, 9: returned or raised); sc, n and remaining
\* are the function's locals; view is the caller's transaction, opened by
\* its first write on what is committed then.  SQLite lets one connection
\* write at a time: the first UPDATE of a second writer waits for the commit
\* of the first, or gives up with "database is locked" when its timeout
\* passes.  alone: no statement of the call ran while the other call was
\* between its first statement and its return.
Procs == {1, 2}

NoRun ==
  [pc |-> 0, source |-> 0, target |-> 0, sc |-> 0, n |-> 0, view |-> EmptyDb,
   remaining |-> 0, status |-> "none", alone |-> TRUE]

NoTxn == [p \in Procs |-> NoRun]

WriteLocked(p) == \E q \in Procs \ {p} : txn[q].pc \in 4..8

Returned(r, status) == [r EXCEPT !.pc = 9, !.status = status]

\* What statement r.pc makes of the caller's locals, reading the committed
\* store d until the caller has written.
StatementResult(d, r) ==
  IF r.pc = 1
  THEN IF r.source \notin Aliased(d) THEN Returned(r, "ValueError")
       ELSE LET sc == d.entity_aliases[r.source].canonical_id
            IN IF AlreadyMapped(sc, r.target)
               THEN Returned([r EXCEPT !.sc = sc], "already_merged")
               ELSE [r EXCEPT !.pc = 2, !.sc = sc]
  ELSE IF r.pc = 2
  THEN [r EXCEPT !.pc = 3, !.n = d.entities[r.source].occurrence_count]
  ELSE IF r.pc = 3
  THEN [r EXCEPT !.pc = 4,
                 !.view = UpdateAlias(d, r.source, r.target, "manual",
                                      Double(100), "user")]
  ELSE IF r.pc = 4
  THEN [r EXCEPT !.pc = 5, !.view = IncrementTarget(r.view, r.target, r.n)]
  ELSE IF r.pc = 5
  THEN [r EXCEPT !.pc = 6, !.view = DecrementSource(r.view, r.sc, r.n)]
  ELSE IF r.pc = 6
  THEN [r EXCEPT !.pc = 7, !.remaining = Remaining(r.view, r.sc)]
  ELSE IF r.pc = 7
  THEN [r EXCEPT !.pc = 8, !.view = DeleteOrphan(r.view, r.sc, r.remaining)]
  ELSE Returned(r, "merged")

MergeBegin(p, source_entity_id, target_canonical_id) ==
  /\ ~batch.active
  /\ txn[p].pc = 0
  /\ txn' = [txn EXCEPT ![p] = [NoRun EXCEPT !.pc = 1,
                                             !.source = source_entity_id,
                                             !.target = target_canonical_id]]
  /\ UNCHANGED <<db, conn, batch, last, report, manifest>>

MergeStatement(p) ==
  LET r == StatementResult(db, txn[p])
      overlapped == \E q \in Procs \ {p} : txn[q].pc \in 2..8
  IN /\ txn[p].pc \in 1..8
     /\ txn[p].pc = 3 => ~WriteLocked(p)
     /\ txn' = [txn EXCEPT ![p] = [r EXCEPT !.alone = @ /\ ~overlapped]]
     /\ db' = IF txn[p].pc = 8 THEN txn[p].view ELSE db
     /\ conn' = db'
     /\ last' = IF r.pc = 9
                THEN [NoCall EXCEPT !.op = "merge_entities",
                                    !.caller = "concurrent",
                                    !.source = r.source, !.target = r.target,
                                    !.status = r.status,
                                    !.source_canonical_id = r.sc,
                                    !.orphaned = r.status = "merged"
                                                 /\ r.remaining = 0]
                ELSE last
     /\ UNCHANGED <<batch, report, manifest>>

\* The busy timeout of a waiting writer passes.
MergeLocked(p) ==
  /\ txn[p].pc = 3
  /\ WriteLocked(p)
  /\ txn' = [txn EXCEPT ![p] = [Returned(@, "OperationalError")
                                  EXCEPT !.alone = FALSE]]
  /\ last' = [NoCall EXCEPT !.op = "merge_entities", !.caller = "concurrent",
                            !.source = txn[p].source, !.target = txn[p].target,
                            !.status = "OperationalError",
                            !.source_canonical_id = txn[p].sc]
  /\ UNCHANGED <<db, conn, batch, report, manifest>>

\* ------------------------------------------------------------ the manifest
\* The steps of the pipeline and the steps each depends on.
StepNames ==
  {"classify", "extract_email_metadata", "extract_urls", "extract_entities",
   "assemble_metadata"}

\* The depends_on property of each step class.
depends_on(step_name) ==
  IF step_name = "extract_email_metadata" THEN {"classify"}
  ELSE IF step_name = "extract_entities" THEN {"extract_email_metadata"}
  ELSE IF step_name = "assemble_metadata"
  THEN {"classify", "extract_email_metadata", "extract_urls", "extract_entities"}
  ELSE {}

\* A step result is kept with its name, its status and outcome_depends_on,
\* which is outcome.get("depends_on", []).
\* Manifest.get_step: the positions of the results with the name (none, or
\* one: add_step keeps the names distinct).
get_step(steps, step_name) ==
  {i \in DOMAIN steps : steps[i].step_name = step_name}

add_step(steps, step) ==
  IF get_step(steps, step.step_name) # {}
  THEN [steps EXCEPT ![CHOOSE i \in get_step(steps, step.step_name) : TRUE] = step]
  ELSE Append(steps, step)

\* PipelineStep.run on the document's saved manifest.  ok: execute returns
\* its outcome, which then replaces the dict depends_on was stored in;
\* otherwise it raises and the dict stays.
run(step_name, ok) ==
  LET existing == get_step(manifest, step_name)
      skipped == \E i \in existing : manifest[i].status = "success"
      step_result == [step_name |-> step_name,
                      status |-> IF ok THEN "success" ELSE "failed",
                      outcome_depends_on |-> IF ok THEN {}
                                             ELSE depends_on(step_name)]
  IN /\ manifest' = IF skipped THEN manifest ELSE add_step(manifest, step_result)
     /\ last' = [NoCall EXCEPT !.op = "run",
                               !.status = IF skipped THEN "skipped"
                                          ELSE step_result.status]
                @@ [step_name |-> step_name]
     /\ UNCHANGED <<db, conn, batch, report, txn>>

\* Manifest.invalidate_dependent_steps on the saved manifest, saved again.
invalidate_dependent_steps(step_name) ==
  /\ manifest' = SelectSeq(manifest,
                           LAMBDA s : step_name \notin s.outcome_depends_on)
  /\ last' = [NoCall EXCEPT !.op = "invalidate_dependent_steps"]
             @@ [step_name |-> step_name]
  /\ UNCHANGED <<db, conn, batch, report, txn>>

\* ------------------------------------------------------------ merge_finder
\* Normalized texts are sequences of one-character strings; normalization has
\* lowercased them and joined their words with single spaces.
Space == " "

\* str.split(): the maximal runs of non-space characters, in order.
RECURSIVE SplitFrom(_, _, _)
SplitFrom(text, i, word) ==
  IF i > Len(text)
  THEN IF Len(word) = 0 THEN <<>> ELSE <<word>>
  ELSE IF text[i] = Space
  THEN (IF Len(word) = 0 THEN <<>> ELSE <<word>>) \o SplitFrom(text, i + 1, <<>>)
  ELSE SplitFrom(text, i + 1, Append(word, text[i]))

Tokens(text) ==
  LET words == SplitFrom(text, 1, <<>>)
  IN {words[i] : i \in DOMAIN words}

\* intersection / union as the fraction it is the quotient of; 0.0 is 0/1.
\* The quotient is compared with the literals 0.8, 0.5, 0.3 and 0.0 only, and
\* for token counts this small the rounded quotient lies on the same side of
\* the rounded literal as the fraction does of the decimal.
calculate_jaccard_similarity(text1, text2) ==
  LET tokens1 == Tokens(text1)
      tokens2 == Tokens(text2)
  IN IF tokens1 = {} \/ tokens2 = {}
     THEN [num |-> 0, den |-> 1]
     ELSE [num |-> Cardinality(tokens1 \cap tokens2),
           den |-> Cardinality(tokens1 \cup tokens2)]

\* jaccard >= p/q and jaccard < p/q.
AtLeast(jaccard, p, q) == jaccard.num * q >= p * jaccard.den

Below(jaccard, p, q) == jaccard.num * q < p * jaccard.den

\* Levenshtein.distance: insertions, deletions and substitutions of one
\* character, computed row by row.
Min2(a, b) == IF a <= b THEN a ELSE b

RECURSIVE LevCells(_, _, _, _)
LevCells(prev, ca, b, cur) ==
  IF Len(cur) = Len(b) + 1 THEN cur
  ELSE LET j == Len(cur)
           subst == prev[j] + (IF ca = b[j] THEN 0 ELSE 1)
       IN LevCells(prev, ca, b,
                   Append(cur, Min2(subst, Min2(prev[j + 1] + 1, cur[j] + 1))))

RECURSIVE LevRows(_, _, _, _)
LevRows(prev, a, i, b) ==
  IF i > Len(a) THEN prev[Len(b) + 1]
  ELSE LevRows(LevCells(prev, a[i], b, <<prev[1] + 1>>), a, i + 1, b)

Levenshtein(a, b) == LevRows([j \in 1..(Len(b) + 1) |-> j - 1], a, 1, b)

\* calculate_merge_confidence, branch by branch.
\* BaseConfidence with the base of distance 2 lowered to that of distance 3.
BaseConfidence_Low(lev_distance) ==
  IF lev_distance = 1 THEN Double(95)
  ELSE IF lev_distance <= 3 THEN Double(70)
  ELSE Double(50)

BaseConfidence(lev_distance) ==
  IF lev_distance = 1 THEN Double(95)
  ELSE IF lev_distance = 2 THEN Double(85)
  ELSE IF lev_distance = 3 THEN Double(70)
  ELSE Double(50)

BaseReason(lev_distance) ==
  IF lev_distance = 1 THEN "Edit distance=1 (likely typo)"
  ELSE IF lev_distance = 2 THEN "Edit distance=2 (possible typo)"
  ELSE IF lev_distance = 3 THEN "Edit distance=3"
  ELSE "Edit distance=n"

\* Boost for high token overlap.
OverlapBoost(s, jaccard) ==
  IF AtLeast(jaccard, 4, 5)
  THEN [confidence |-> FAdd(s.confidence, Double(10)),
        reasons |-> Append(s.reasons, "High token overlap")]
  ELSE IF AtLeast(jaccard, 1, 2)
  THEN [confidence |-> FAdd(s.confidence, Double(5)),
        reasons |-> Append(s.reasons, "Good token overlap")]
  ELSE s

Max2(a, b) == IF a >= b THEN a ELSE b

\* IsRareVariant with the ratio compared to 0.01.
IsRareVariant_Hundredth(count1, count2) ==
  /\ count1 + count2 > 0
  /\ 100 * Min2(count1, count2) < Max2(count1, count2)
  /\ Max2(count1, count2) > 10

\* ratio < 0.1 and max(count1, count2) > 10, with ratio = min / max.
IsRareVariant(count1, count2) ==
  /\ count1 + count2 > 0
  /\ 10 * Min2(count1, count2) < Max2(count1, count2)
  /\ Max2(count1, count2) > 10

RareBoost(s, count1, count2) ==
  IF IsRareVariant(count1, count2)
  THEN [confidence |-> FAdd(s.confidence, Double(5)),
        reasons |-> Append(s.reasons, "Rare variant")]
  ELSE s

\* LowOverlapPenalty with the penalty left out.
LowOverlapPenalty_None(s, jaccard) == s

\* Penalize if Jaccard is too low.
LowOverlapPenalty(s, jaccard) ==
  IF Below(jaccard, 3, 10)
  THEN [confidence |-> FSub(s.confidence, Double(15)),
        reasons |-> Append(s.reasons, "Low token overlap")]
  ELSE s

Cap(s) == [s EXCEPT !.confidence = Min2(@, Double(100))]

calculate_merge_confidence(text1, text2, count1, count2, lev_distance, jaccard) ==
  IF lev_distance = 0
  THEN [confidence |-> Double(100), reasons |-> <<"Exact match (different case)">>]
  ELSE Cap(LowOverlapPenalty(
             RareBoost(
               OverlapBoost([confidence |-> BaseConfidence(lev_distance),
                             reasons |-> <<BaseReason(lev_distance)>>],
                            jaccard),
               count1, count2),
             jaccard))

\* The normalized texts of the entities of the examples, by key: 1 "jeffrey
\* epstein", 2 "jefffrey epstein", 3 "south africa", 4 "south america",
\* 5 "south american", 6 "south americas", 7 "jeffrey", 8 "jefffrey",
\* 9 "soth america", 10 "jeffrey epstein" again (another type).
Texts ==
  <<<<"j", "e", "f", "f", "r", "e", "y", " ", "e", "p", "s", "t", "e", "i", "n">>,
    <<"j", "e", "f", "f", "f", "r", "e", "y", " ", "e", "p", "s", "t", "e", "i", "n">>,
    <<"s", "o", "u", "t", "h", " ", "a", "f", "r", "i", "c", "a">>,
    <<"s", "o", "u", "t", "h", " ", "a", "m", "e", "r", "i", "c", "a">>,
    <<"s", "o", "u", "t", "h", " ", "a", "m", "e", "r", "i", "c", "a", "n">>,
    <<"s", "o", "u", "t", "h", " ", "a", "m", "e", "r", "i", "c", "a", "s">>,
    <<"j", "e", "f", "f", "r", "e", "y">>,
    <<"j", "e", "f", "f", "f", "r", "e", "y">>,
    <<"s", "o", "t", "h", " ", "a", "m", "e", "r", "i", "c", "a">>,
    <<"j", "e", "f", "f", "r", "e", "y", " ", "e", "p", "s", "t", "e", "i", "n">>>>

NormalizedText(d, e) == Texts[d.entities[e].key]

\* The type of the key: key 10 is the organization of the same text as the
\* person of key 1.  The finder is asked for its default type.
TypeOf(k) == IF k = 10 THEN "organization" ELSE "person"

Count(d, e) == d.entities[e].occurrence_count

\* Prefix with SUBSTR(normalized_text, 1, 1).
Prefix_One(text) == SubSeq(text, 1, Min2(1, Len(text)))

\* SUBSTR(normalized_text, 1, 3), and the order ORDER BY puts prefixes in
\* (BINARY collation: the space sorts before the letters).
Prefix(text) == SubSeq(text, 1, Min2(3, Len(text)))

Alphabet ==
  <<" ", "a", "b", "c", "d", "e", "f", "g", "h", "i", "j", "k", "l", "m", "n", "o", "p", "q", "r", "s", "t", "u", "v", "w", "x", "y", "z">>

Rank(ch) == CHOOSE i \in DOMAIN Alphabet : Alphabet[i] = ch

RECURSIVE LexLess(_, _)
LexLess(a, b) ==
  IF Len(b) = 0 THEN FALSE
  ELSE IF Len(a) = 0 THEN TRUE
  ELSE IF Head(a) = Head(b) THEN LexLess(Tail(a), Tail(b))
  ELSE Rank(Head(a)) < Rank(Head(b))

\* QueryRows without the test of the type.
QueryRows_AnyType(d, min_occurrences) ==
  {e \in DOMAIN d.entities \cap Aliased(d) :
     /\ Count(d, e) >= min_occurrences
     /\ d.entity_aliases[e].is_canonical}

\* The rows of the query: entities of the type with enough occurrences whose
\* alias row has is_canonical = 1, ORDER BY prefix, occurrence_count DESC.
\* Rows equal in both come in entity_id order, the order of the table scan.
QueryRows(d, min_occurrences) ==
  {e \in DOMAIN d.entities \cap Aliased(d) :
     /\ TypeOf(d.entities[e].key) = "person"
     /\ Count(d, e) >= min_occurrences
     /\ d.entity_aliases[e].is_canonical}

RowBefore(d, a, b) ==
  LET pa == Prefix(NormalizedText(d, a))
      pb == Prefix(NormalizedText(d, b))
  IN IF pa # pb THEN LexLess(pa, pb)
     ELSE IF Count(d, a) # Count(d, b) THEN Count(d, a) > Count(d, b)
     ELSE a < b

RECURSIVE SortRows(_, _)
SortRows(d, S) ==
  IF S = {} THEN <<>>
  ELSE LET m == CHOOSE x \in S : \A y \in S \ {x} : RowBefore(d, x, y)
       IN <<m>> \o SortRows(d, S \ {m})

Abs(n) == IF n < 0 THEN 0 - n ELSE n

\* The body of the inner loop for the rows e1 and e2 of one block: the
\* candidate appended, if any.
ComparePair(d, e1, e2, max_distance, min_confidence) ==
  LET t1 == NormalizedText(d, e1)
      t2 == NormalizedText(d, e2)
      jaccard == calculate_jaccard_similarity(t1, t2)
      lev_distance == Levenshtein(t1, t2)
      scored == calculate_merge_confidence(t1, t2, Count(d, e1), Count(d, e2),
                                           lev_distance, jaccard)
  IN IF Abs(Len(t1) - Len(t2)) > max_distance THEN <<>>
     ELSE IF jaccard.num = 0 THEN <<>>
     ELSE IF lev_distance > max_distance THEN <<>>
     ELSE IF scored.confidence >= min_confidence
     THEN <<[e1 |-> e1, c1 |-> Count(d, e1), e2 |-> e2, c2 |-> Count(d, e2),
             distance |-> lev_distance, jaccard |-> jaccard,
             confidence |-> scored.confidence, reasons |-> scored.reasons]>>
     ELSE <<>>

\* for i in range(len(block)): for j in range(i + 1, len(block)), over the
\* blocks in the order of the rows; rows of one block are contiguous.
RECURSIVE ComparePairs(_, _, _, _, _, _)
ComparePairs(d, rows, i, j, max_distance, min_confidence) ==
  IF i > Len(rows) THEN <<>>
  ELSE IF j > Len(rows)
  THEN ComparePairs(d, rows, i + 1, i + 2, max_distance, min_confidence)
  ELSE (IF Prefix(NormalizedText(d, rows[i])) = Prefix(NormalizedText(d, rows[j]))
        THEN ComparePair(d, rows[i], rows[j], max_distance, min_confidence)
        ELSE <<>>)
       \o ComparePairs(d, rows, i, j + 1, max_distance, min_confidence)

\* The pairs the inner loop is run for: the pairs of rows of one block.
Compared(d, rows) ==
  {<<rows[p[1]], rows[p[2]]>> : p \in
     {p \in (DOMAIN rows) \X (DOMAIN rows) :
        /\ p[1] < p[2]
        /\ Prefix(NormalizedText(d, rows[p[1]])) = Prefix(NormalizedText(d, rows[p[2]]))}}

\* candidates.sort(key=confidence, reverse=True): stable, equal confidences
\* keep their order.
RECURSIVE InsertByConfidence(_, _)
InsertByConfidence(sorted, c) ==
  IF Len(sorted) = 0 THEN <<c>>
  ELSE IF Head(sorted).confidence >= c.confidence
  THEN <<Head(sorted)>> \o InsertByConfidence(Tail(sorted), c)
  ELSE <<c>> \o sorted

RECURSIVE SortByConfidence(_)
SortByConfidence(cs) ==
  IF Len(cs) = 0 THEN <<>>
  ELSE InsertByConfidence(SortByConfidence(SubSeq(cs, 1, Len(cs) - 1)), cs[Len(cs)])

find_merge_candidates(d, min_occurrences, max_distance, min_confidence, limit) ==
  LET entities == SortRows(d, QueryRows(d, min_occurrences))
      candidates == SortByConfidence(
                      ComparePairs(d, entities, 1, 2, max_distance, min_confidence))
  IN SubSeq(candidates, 1, Min2(limit, Len(candidates)))

\* generate_merge_report: the three list comprehensions over the candidates.
InAutoMerge(c) == c.confidence >= Double(95)

\* InLlmReview with <= for the upper comparison.
InLlmReview_Closed(c) == Double(80) <= c.confidence /\ c.confidence <= Double(95)

InLlmReview(c) == Double(80) <= c.confidence /\ c.confidence < Double(95)

InManualReview(c) == Double(70) <= c.confidence /\ c.confidence < Double(80)

NoReport ==
  [present |-> FALSE, min_occurrences |-> 0, total_candidates |-> 0,
   auto_merge_count |-> 0, llm_review_count |-> 0, manual_review_count |-> 0,
   auto_merge |-> <<>>, llm_review |-> <<>>, manual_review |-> <<>>]

MergeReport(candidates, min_occurrences) ==
  LET auto_merge == SelectSeq(candidates, InAutoMerge)
      llm_review == SelectSeq(candidates, InLlmReview)
      manual_review == SelectSeq(candidates, InManualReview)
  IN [present |-> TRUE, min_occurrences |-> min_occurrences,
      total_candidates |-> Len(candidates),
      auto_merge_count |-> Len(auto_merge),
      llm_review_count |-> Len(llm_review),
      manual_review_count |-> Len(manual_review),
      auto_merge |-> auto_merge, llm_review |-> llm_review,
      manual_review |-> manual_review]

\* ------------------------------------------------------------- the batches
\* A candidate of the report file: two entities with the counts recorded for
\* them and the algorithmic confidence.
Candidates ==
  {c \in [e1 : EntityIds, c1 : 1..MaxCount, e2 : EntityIds, c2 : 1..MaxCount,
          confidence : FileConfidences] : c.e1 # c.e2}

\* max_confidence of batch_llm_review (its default).
MaxConfidence == Double(95)

\* The list comprehensions that filter the report's list.
PassesFilter(kind, min_confidence, max_confidence, c) ==
  IF kind = "auto"
  THEN c.confidence >= min_confidence
  ELSE min_confidence <= c.confidence /\ c.confidence <= max_confidence

\* ReportList reading every list of the report.
ReportList_All(r, kind) == r.auto_merge \o r.llm_review \o r.manual_review

\* report.get("auto_merge", []) and report.get("llm_review", []).
ReportList(r, kind) == IF kind = "auto" THEN r.auto_merge ELSE r.llm_review

Filtered(r, kind, min_confidence, max_confidence) ==
  SelectSeq(ReportList(r, kind),
            LAMBDA c : PassesFilter(kind, min_confidence, max_confidence, c))

\* FirstIsTarget with the two branches swapped, and with > for >=.
FirstIsTarget_Flipped(c) == c.c1 <= c.c2

FirstIsTarget_Strict(c) == c.c1 > c.c2

\* if e1["count"] >= e2["count"]: the source is e2 and the target e1.
FirstIsTarget(c) == c.c1 >= c.c2

SourceId(c) == IF FirstIsTarget(c) THEN c.e2 ELSE c.e1

TargetEntity(c) == IF FirstIsTarget(c) THEN c.e1 ELSE c.e2

\* ask_llm_merge_decision.  What the request comes to: "error", an exception
\* inside the try block (connection failure, timeout, HTTP error status, a
\* body or a response field that is not JSON); "not_object", a response that
\* parses to a JSON value other than an object; "object", an object whose
\* should_merge is true, false, missing, or a value that is not a boolean
\* and that Python takes for true ("truthy") or for false ("falsy").
OracleOutcomes ==
  {[kind |-> "error", should_merge |-> "false", confidence |-> Double(0)],
   [kind |-> "not_object", should_merge |-> "none", confidence |-> Double(0)]}
  \cup [kind : {"object"},
        should_merge : {"true", "false", "missing", "truthy", "falsy"},
        confidence : {Double(90)}]

\* The value returned: the fail-safe dict of the except branch, or the parsed
\* response as it is.
ask_llm_merge_decision(outcome) ==
  IF outcome.kind = "error"
  THEN [object |-> TRUE, should_merge |-> "false", confidence |-> Double(0)]
  ELSE [object |-> outcome.kind = "object",
        should_merge |-> outcome.should_merge,
        confidence |-> outcome.confidence]

OracleKind(outcome) ==
  IF outcome.kind = "object" THEN outcome.should_merge ELSE outcome.kind

\* if decision.get("should_merge", False): the truth value of the field.
ShouldMerge(decision) == decision.should_merge \in {"true", "truthy"}

\* LlmConfidence passing the candidate's confidence.
LlmConfidence_Algorithmic(c, decision) == c.confidence

\* confidence=decision.get("confidence", 0.0)
LlmConfidence(c, decision) == decision.confidence

\* DryRun with the flag ignored.
DryRun_Ignored(b) == FALSE

\* if dry_run:
DryRun(b) == b.dry_run

\* OnMergeException counting the candidate nowhere.
OnMergeException_Uncounted(b) == b

\* OnMergeException counting the candidate as skipped.
OnMergeException_Skipped(b) == [b EXCEPT !.skipped = @ + 1]

\* except Exception in the batch loop: the candidate is counted in errors.
OnMergeException(b) == [b EXCEPT !.errors = @ + 1]

\* The snapshot kept of a merge that raised after its first write (r.view
\* differs from v), and of the rows a later writing merge leaves comparable.
Row(f, x) == IF x \in DOMAIN f THEN f[x] ELSE <<>>

TrackFailed(b, v, source, target, r) ==
  IF r.view # v /\ ~r.commit
  THEN [b EXCEPT !.failed =
          [present |-> TRUE, source |-> source,
           alias |-> v.entity_aliases[source],
           sc |-> r.source_canonical_id,
           sc_row |-> Row(v.canonical_entities, r.source_canonical_id),
           tc |-> target, tc_row |-> Row(v.canonical_entities, target),
           alias_ok |-> TRUE, sc_ok |-> TRUE, tc_ok |-> TRUE]]
  ELSE IF b.failed.present /\ r.view # v
  THEN [b EXCEPT !.failed.alias_ok = @ /\ source # b.failed.source,
                 !.failed.sc_ok = @ /\ b.failed.sc \notin {r.source_canonical_id, target},
                 !.failed.tc_ok = @ /\ b.failed.tc \notin {r.source_canonical_id, target}]
  ELSE b

Order(c) ==
  IF c.c1 > c.c2 THEN "first_more"
  ELSE IF c.c1 = c.c2 THEN "tie" ELSE "second_more"

CallRecord(kind, c, source, target, r) ==
  [NoCall EXCEPT !.op = "merge_entities", !.caller = kind,
                 !.source = source, !.target = target, !.status = r.status,
                 !.source_canonical_id = r.source_canonical_id,
                 !.orphaned = r.orphaned,
                 !.e1 = c.e1, !.e2 = c.e2, !.order = Order(c),
                 !.confidence = c.confidence]

StepRecord(kind, c, status) ==
  [NoCall EXCEPT !.op = "batch_step", !.caller = kind, !.status = status,
                 !.e1 = c.e1, !.e2 = c.e2, !.order = Order(c),
                 !.confidence = c.confidence]

\* The part of one loop iteration that both batches share, from the choice of
\* source and target on: v is the connection's view, committed the store, b
\* the batch with the counters of the iteration so far.  A result other than
\* "merged" is counted in skipped by batch_auto_merge and in errors by
\* batch_llm_review.  ok: the statement failAt names was reached, within
\* MaxFaults.
MergeCandidate(v, committed, b, c, method, confidence, merged_by, failAt) ==
  LET source == SourceId(c)
      te == TargetEntity(c)
  IN
  IF te \notin Aliased(v)
  THEN [ok |-> TRUE, conn |-> v, db |-> committed,
        batch |-> [b EXCEPT !.errors = @ + 1, !.done = @ + 1],
        last |-> StepRecord(b.kind, c, "target_not_found")]
  ELSE IF DryRun(b)
  THEN [ok |-> TRUE, conn |-> v, db |-> committed,
        batch |-> [b EXCEPT !.merged = @ + 1, !.done = @ + 1],
        last |-> StepRecord(b.kind, c, "would_merge")]
  ELSE
  LET target == v.entity_aliases[te].canonical_id
      r == merge_entities(v, source, target, method, confidence, merged_by,
                          failAt)
      raised == r.status \notin {"merged", "already_merged"}
      counted ==
        IF raised THEN OnMergeException(b)
        ELSE IF r.status = "merged" THEN [b EXCEPT !.merged = @ + 1]
        ELSE IF b.kind = "auto" THEN [b EXCEPT !.skipped = @ + 1]
        ELSE [b EXCEPT !.errors = @ + 1]
      b2 == TrackFailed(counted, v, source, target, r)
  IN [ok |-> /\ ~NoFailure(failAt) => b.faults < MaxFaults
             /\ ~NoFailure(failAt) <=> r.status = "sqlite3.Error",
      conn |-> r.view,
      db |-> IF r.commit THEN r.view ELSE committed,
      batch |-> [b2 EXCEPT !.done = @ + 1,
                           !.faults = IF NoFailure(failAt) THEN @ ELSE @ + 1],
      last |-> CallRecord(b.kind, c, source, target, r)]

\* batch_auto_merge / batch_llm_review up to the loop: the file is read and
\* filtered (n candidates pass), the connection is opened.  With no candidate
\* the function returns at once.
OpenBatch(kind, dry_run, min_confidence, max_confidence, n) ==
  /\ ~batch.active
  /\ batch.runs < MaxBatches
  /\ batch' = [NoBatch EXCEPT !.active = n > 0, !.kind = kind,
                              !.dry_run = dry_run,
                              !.min_confidence = min_confidence,
                              !.max_confidence = max_confidence,
                              !.total = n,
                              !.faults = batch.faults,
                              !.runs = batch.runs + 1]
  /\ conn' = db
  /\ last' = [NoCall EXCEPT !.op = "batch_start", !.caller = kind]
  /\ UNCHANGED <<db, report, txn, manifest>>

\* A batch over some candidates file of which n candidates pass the filter.
BatchStart(kind, dry_run, min_confidence, n) ==
  /\ n > 0 => \E c \in Candidates :
                 PassesFilter(kind, min_confidence, MaxConfidence, c)
  /\ OpenBatch(kind, dry_run, min_confidence, MaxConfidence, n)

\* One iteration of batch_auto_merge's loop.
AutoStep(c, failAt) ==
  LET o == MergeCandidate(conn, db, batch, c, "auto", c.confidence,
                          "auto_merge_script", failAt)
  IN /\ batch.active /\ batch.kind = "auto" /\ batch.done < batch.total
     /\ PassesFilter("auto", batch.min_confidence, batch.max_confidence, c)
     /\ o.ok
     /\ conn' = o.conn /\ db' = o.db /\ batch' = o.batch /\ last' = o.last
     /\ UNCHANGED <<report, txn, manifest>>

\* One iteration of batch_llm_review's loop.  A decision that is not a dict
\* has no get: the AttributeError leaves the loop and the function, and the
\* connection goes with its uncommitted writes.
LlmStep(c, outcome, failAt) ==
  LET decision == ask_llm_merge_decision(outcome)
      b == [batch EXCEPT !.reviewed = @ + 1]
      o == MergeCandidate(conn, db, [b EXCEPT !.approved = @ + 1], c, "llm",
                          LlmConfidence(c, decision), "llm:model", failAt)
  IN /\ batch.active /\ batch.kind = "llm" /\ batch.done < batch.total
     /\ PassesFilter("llm", batch.min_confidence, batch.max_confidence, c)
     /\ IF ~decision.object
        THEN /\ NoFailure(failAt)
             /\ batch' = [NoBatch EXCEPT !.kind = "llm",
                                         !.faults = batch.faults,
                                         !.runs = batch.runs,
                                         !.failed = batch.failed]
             /\ conn' = db
             /\ last' = [StepRecord("llm", c, "AttributeError")
                            EXCEPT !.oracle = OracleKind(outcome)]
             /\ UNCHANGED <<db, report, txn, manifest>>
        ELSE IF ShouldMerge(decision)
        THEN /\ o.ok
             /\ conn' = o.conn /\ db' = o.db /\ batch' = o.batch
             /\ last' = [o.last EXCEPT !.oracle = OracleKind(outcome),
                                       !.llm_confidence = decision.confidence]
             /\ UNCHANGED <<report, txn, manifest>>
        ELSE /\ NoFailure(failAt)
             /\ batch' = [b EXCEPT !.rejected = @ + 1, !.done = @ + 1]
             /\ last' = [StepRecord("llm", c, "rejected")
                            EXCEPT !.oracle = OracleKind(outcome),
                                   !.llm_confidence = decision.confidence]
             /\ UNCHANGED <<db, conn, report, txn, manifest>>

\* After the loop: conn.close() drops what the connection has not committed,
\* and the stats are returned.
BatchFinish ==
  /\ batch.active /\ batch.done = batch.total
  /\ batch' = [NoBatch EXCEPT !.kind = batch.kind, !.faults = batch.faults,
                              !.runs = batch.runs, !.failed = batch.failed]
  /\ conn' = db
  /\ last' = [NoCall EXCEPT !.op = "batch_finish", !.caller = batch.kind]
  /\ UNCHANGED <<db, report, txn, manifest>>

\* A whole run of batch_auto_merge on the store d and the report r, no
\* statement failing: the stats and the merges log it returns, and the store
\* it leaves.
MergeLog(c) ==
  [source |-> SourceId(c), target |-> TargetEntity(c),
   confidence |-> c.confidence, reasons |-> c.reasons]

RECURSIVE AutoLoop(_, _, _, _, _, _)
AutoLoop(v, committed, b, list, i, merges) ==
  IF i > Len(list)
  THEN [merged |-> b.merged, errors |-> b.errors, skipped |-> b.skipped,
        merges |-> merges, db |-> committed]
  ELSE LET o == MergeCandidate(v, committed, b, list[i], "auto",
                               list[i].confidence, "auto_merge_script", 0)
       IN AutoLoop(o.conn, o.db, o.batch, list, i + 1,
                   IF o.batch.merged > b.merged
                   THEN Append(merges, MergeLog(list[i])) ELSE merges)

batch_auto_merge(d, r, min_confidence, dry_run) ==
  LET auto_merge_candidates == Filtered(r, "auto", min_confidence, Double(0))
  IN IF Len(auto_merge_candidates) = 0
     THEN [merged |-> 0, errors |-> 0, skipped |-> 0, merges |-> <<>>, db |-> d]
     ELSE AutoLoop(d, d,
                   [NoBatch EXCEPT !.active = TRUE, !.kind = "auto",
                                   !.dry_run = dry_run,
                                   !.min_confidence = min_confidence,
                                   !.total = Len(auto_merge_candidates)],
                   auto_merge_candidates, 1, <<>>)

\* generate_merge_report with an output file.
generate_merge_report(min_occurrences) ==
  /\ ~batch.active
  /\ report' = MergeReport(find_merge_candidates(db, min_occurrences, 3,
                                                  Double(70), 200),
                           min_occurrences)
  /\ last' = [NoCall EXCEPT !.op = "generate_merge_report"]
  /\ UNCHANGED <<db, conn, batch, txn, manifest>>

\* The batches on the file generate_merge_report has written.
ReportBatchStart(kind, dry_run, min_confidence, max_confidence) ==
  /\ report.present
  /\ OpenBatch(kind, dry_run, min_confidence, max_confidence,
               Len(Filtered(report, kind, min_confidence, max_confidence)))

NextCandidate ==
  Filtered(report, batch.kind, batch.min_confidence,
           batch.max_confidence)[batch.done + 1]

ReportAutoStep(failAt) ==
  /\ batch.active /\ batch.kind = "auto" /\ batch.done < batch.total
  /\ AutoStep(NextCandidate, failAt)

ReportLlmStep(outcome, failAt) ==
  /\ batch.active /\ batch.kind = "llm" /\ batch.done < batch.total
  /\ LlmStep(NextCandidate, outcome, failAt)

\* ------------------------------------------------------------ specification
Init ==
  /\ db = EmptyDb
  /\ conn = EmptyDb
  /\ batch = NoBatch
  /\ last = NoCall
  /\ report = NoReport
  /\ txn = NoTxn
  /\ manifest = <<>>

Next ==
  \/ \E doc \in Documents : extract_and_store_entities(doc)
  \/ \E stop \in 0..MaxEntities : initialize_canonical_entities(stop)
  \/ \E s \in EntityIds, t \in CanonicalIds : MergeCall(s, t)

Spec == Init /\ [][Next]_vars

\* The stores ingestion can have written before the first initialization, and
\* the 1:1 seed states initialize_canonical_entities makes of them.
Stores ==
  UNION {[1..n -> 1..MaxCount] : n \in 0..MaxEntities}

StoreOf(counts) ==
  [e \in DOMAIN counts |-> [key |-> e, occurrence_count |-> counts[e]]]

SeedStates ==
  {InitializeRun([EmptyDb EXCEPT !.entities = StoreOf(counts)], MaxEntities).db :
     counts \in Stores}

InitSeed ==
  /\ db \in SeedStates
  /\ conn = db
  /\ batch = NoBatch
  /\ last = [NoCall EXCEPT !.op = "initialize_canonical_entities",
                           !.status = "initialized"]
  /\ report = NoReport
  /\ txn = NoTxn
  /\ manifest = <<>>

\* The batches run on a seeded graph, over any candidates file, with any
\* statement of merge_entities failing and an oracle that fails or answers
\* true or false.
AnsweringOutcomes ==
  {o \in OracleOutcomes : OracleKind(o) \in {"error", "true", "false"}}

NextBatch ==
  \/ \E kind \in {"auto", "llm"}, dry_run \in BOOLEAN, n \in 0..MaxCandidates :
        \E m \in MinConfidences(kind) : BatchStart(kind, dry_run, m, n)
  \/ \E c \in Candidates, failAt \in FailPoints : AutoStep(c, failAt)
  \/ \E c \in Candidates, o \in AnsweringOutcomes,
        failAt \in FailPoints : LlmStep(c, o, failAt)
  \/ BatchFinish

SpecBatch == InitSeed /\ [][NextBatch]_vars

\* The same batches with every outcome of the oracle call and no statement of
\* merge_entities failing.
NextOracle ==
  \/ \E kind \in {"auto", "llm"}, dry_run \in BOOLEAN, n \in 0..MaxCandidates :
        \E m \in MinConfidences(kind) : BatchStart(kind, dry_run, m, n)
  \/ \E c \in Candidates : AutoStep(c, 0)
  \/ \E c \in Candidates, o \in OracleOutcomes : LlmStep(c, o, 0)
  \/ BatchFinish

SpecOracle == InitSeed /\ [][NextOracle]_vars

\* The batches with an oracle that answers true or false with a confidence
\* of 0.9 or of 1.5, no statement of merge_entities failing.
NextConfidence ==
  \/ \E kind \in {"auto", "llm"}, dry_run \in BOOLEAN, n \in 0..MaxCandidates :
        \E m \in MinConfidences(kind) : BatchStart(kind, dry_run, m, n)
  \/ \E c \in Candidates : AutoStep(c, 0)
  \/ \E c \in Candidates,
        o \in [kind : {"object"}, should_merge : {"true", "false"},
               confidence : {Double(90), Double(150)}] : LlmStep(c, o, 0)
  \/ BatchFinish

SpecConfidence == InitSeed /\ [][NextConfidence]_vars

\* Sequences of merge_entities calls on a seeded graph, with no ingestion in
\* between: with any target id, and with live targets only.
NextMerges ==
  \E s \in EntityIds, t \in CanonicalIds : MergeCall(s, t)

SpecMerges == InitSeed /\ [][NextMerges]_vars

NextLiveMerges ==
  \E s \in EntityIds, t \in Live(db) : MergeCall(s, t)

SpecLiveMerges == InitSeed /\ [][NextLiveMerges]_vars

\* The scorer called on its own, in any order: any edit distance up to
\* MaxEditDistance, any quotient of token counts up to MaxTokens for the
\* Jaccard similarity, and counts on both sides of the rare-variant test.
ScoreCounts == {1, 2, 10, 11, 50, 101}

JaccardValues ==
  {j \in [num : 0..MaxTokens, den : 1..MaxTokens] : j.num <= j.den}

ScoreTexts == {<<7, 8>>, <<8, 7>>}

\* The arguments of a call that is about to be made.
ScoreInputs ==
  [op : {"input"}, texts : ScoreTexts, count1 : ScoreCounts,
   count2 : ScoreCounts, lev_distance : 0..MaxEditDistance,
   jaccard : JaccardValues]

InitScore ==
  /\ db = EmptyDb
  /\ conn = EmptyDb
  /\ batch = NoBatch
  /\ report = NoReport
  /\ txn = NoTxn
  /\ manifest = <<>>
  /\ last \in ScoreInputs

\* One call, on the pair as it stands or with the two entities exchanged;
\* a call can follow a call.
Score(swap) ==
  LET texts == IF swap THEN <<last.texts[2], last.texts[1]>> ELSE last.texts
      count1 == IF swap THEN last.count2 ELSE last.count1
      count2 == IF swap THEN last.count1 ELSE last.count2
      scored == calculate_merge_confidence(Texts[texts[1]], Texts[texts[2]],
                                           count1, count2, last.lev_distance,
                                           last.jaccard)
  IN /\ last.op \in {"input", "calculate_merge_confidence"}
     /\ last' = [op |-> "calculate_merge_confidence", texts |-> texts,
                 count1 |-> count1, count2 |-> count2,
                 lev_distance |-> last.lev_distance, jaccard |-> last.jaccard,
                 confidence |-> scored.confidence, reasons |-> scored.reasons]
     /\ UNCHANGED <<db, conn, batch, report, txn, manifest>>

NextScore == \E swap \in BOOLEAN : Score(swap)

SpecScore == InitScore /\ [][NextScore]_vars

\* The whole pipeline on a seeded graph of the entities of the examples: the
\* report is generated (with min_occurrences 2, or 5, its default), and the
\* batches run on it with thresholds at, below and above the tier bounds.  An
\* entity was seen twice or fifty times; entity ids follow the keys.
PipelineCounts == {2, 50}

MinOccurrences == {2, 5}

PipelineMin == {Double(0), Double(80), Double(95)}

TextStores(keys) ==
  UNION {{s \in [1..n -> [key : keys, occurrence_count : PipelineCounts]] :
            \A i, j \in 1..n : i < j => s[i].key < s[j].key} :
         n \in 0..MaxEntities}

TextSeedStates(keys) ==
  {InitializeRun([EmptyDb EXCEPT !.entities = s], MaxEntities).db :
     s \in TextStores(keys)}

InitPipeline ==
  /\ db \in TextSeedStates(1..6)
  /\ conn = db
  /\ batch = NoBatch
  /\ last = [NoCall EXCEPT !.op = "initialize_canonical_entities",
                           !.status = "initialized"]
  /\ report = NoReport
  /\ txn = NoTxn
  /\ manifest = <<>>

NextPipeline ==
  \/ \E m \in MinOccurrences : generate_merge_report(m)
  \/ \E kind \in {"auto", "llm"}, dry_run \in BOOLEAN, m \in PipelineMin :
        \E x \in (IF kind = "auto" THEN {MaxConfidence} ELSE {Double(95), Double(100)}) :
           ReportBatchStart(kind, dry_run, m, x)
  \/ ReportAutoStep(0)
  \/ \E o \in AnsweringOutcomes : ReportLlmStep(o, 0)
  \/ BatchFinish

SpecPipeline == InitPipeline /\ [][NextPipeline]_vars

\* Two merge_entities calls on a seeded graph, with live targets, in every
\* interleaving of their statements SQLite allows.
NextConcurrent ==
  \/ \E p \in Procs, s \in EntityIds, t \in Live(db) : MergeBegin(p, s, t)
  \/ \E p \in Procs : MergeStatement(p)
  \/ \E p \in Procs : MergeLocked(p)

SpecConcurrent == InitSeed /\ [][NextConcurrent]_vars

\* The steps of one document run, rerun and invalidated in any order.
NextManifest ==
  \/ \E step_name \in StepNames, ok \in BOOLEAN : run(step_name, ok)
  \/ \E step_name \in StepNames : invalidate_dependent_steps(step_name)

SpecManifest == Init /\ [][NextManifest]_vars

MergeCalled(l) == l.op = "merge_entities"

\* The finder called on its own, with parameters on both sides of what the
\* entities of the store have, between merge_entities calls with live
\* targets.  The stores hold a misspelling outside the block of the correct
\* text (key 9) and an entity of another type (key 10).  A call follows the
\* initialization or a merge: it changes nothing a second call reads.
InitFinder ==
  /\ db \in TextSeedStates({1, 4, 5, 6, 9, 10})
  /\ conn = db
  /\ batch = NoBatch
  /\ last = [NoCall EXCEPT !.op = "initialize_canonical_entities",
                           !.status = "initialized"]
  /\ report = NoReport
  /\ txn = NoTxn
  /\ manifest = <<>>

FindCandidates(min_occurrences, max_distance, min_confidence, limit) ==
  /\ last' = [op |-> "find_merge_candidates",
              min_occurrences |-> min_occurrences,
              max_distance |-> max_distance,
              min_confidence |-> min_confidence, limit |-> limit,
              compared |-> Compared(db, SortRows(db, QueryRows(db, min_occurrences))),
              candidates |-> find_merge_candidates(db, min_occurrences,
                                                   max_distance, min_confidence,
                                                   limit)]
  /\ UNCHANGED <<db, conn, batch, report, txn, manifest>>

NextFinder ==
  \/ \E m \in MinOccurrences, x \in {1, 3}, c \in {Double(0), Double(95)},
        l \in {2, 100} :
        /\ MergeCalled(last) \/ last.op = "initialize_canonical_entities"
        /\ FindCandidates(m, x, c, l)
  \/ \E s \in EntityIds, t \in Live(db) : MergeCall(s, t)

SpecFinder == InitFinder /\ [][NextFinder]_vars

\* ------------------------------------------------------------------ claims

\* C1: after every sequence of merge_entities calls on a seeded graph whose
\* targets are live at the time of the call, the sum of total_mentions over
\* the live canonical entities equals the sum of occurrence_count over all
\* entities (SpecLiveMerges: it is an invariant, so it holds after each call).
C1_Conservation == TotalMentions(db) = TotalOccurrences(db)

\* A merge has moved an entity out of a cluster that keeps other members, so
\* both totals were rewritten and the source canonical stayed live.
C1_Witness ==
  /\ MergeCalled(last) /\ last.status = "merged" /\ ~last.orphaned
  /\ last.source_canonical_id \in Live(db)

\* C2: in every state reached by extraction observations and merges after
\* initialization, each live canonical entity's total_mentions is the sum of
\* occurrence_count over the entities whose alias row points to it.
C2_PerClusterTotal ==
  \A c \in Live(db) :
    db.canonical_entities[c].total_mentions = MemberOccurrences(db, c)

\* C3: once the graph has been initialized, every entity row has an alias row
\* (entity_id is the table's primary key, so it has at most one).
C3_TotalMapping ==
  Live(db) # {} => \A e \in DOMAIN db.entities : e \in Aliased(db)

\* C4: merge_entities(A, c) with c the canonical id A's alias holds returns
\* "already_merged" and changes no alias row and no canonical entity.
C4_Idempotent ==
  [][(/\ MergeCalled(last')
      /\ last'.source \in Aliased(db)
      /\ db.entity_aliases[last'.source].canonical_id = last'.target)
     => (last'.status = "already_merged" /\ db' = db /\ conn' = conn)]_vars

\* A merge that had succeeded was repeated.
C4_Witness ==
  /\ MergeCalled(last) /\ last.status = "already_merged"
  /\ db.entity_aliases[last.source].merge_method = "manual"

\* C5: a merge_entities call that merges leaves the source canonical live
\* exactly when it was live and an alias row still points to it, deletes no
\* other canonical entity, and returns orphaned_canonical_deleted exactly when
\* no alias row points to the source canonical; and after any sequence of
\* merges from a seed state no live canonical entity has zero member aliases.
C5_OrphanCleanup ==
  /\ [](\A c \in Live(db) : Members(db, c) # {})
  /\ [][(MergeCalled(last') /\ last'.status = "merged")
        => LET sc == db.entity_aliases[last'.source].canonical_id
           IN /\ last'.orphaned <=> Members(db', sc) = {}
              /\ sc \in Live(db') <=> (sc \in Live(db) /\ Members(db', sc) # {})
              /\ Live(db) \ {sc} = Live(db') \ {sc}]_vars

\* The only member of a live canonical entity was merged away, and the
\* canonical entity is gone.
C5_Witness ==
  /\ MergeCalled(last) /\ last.status = "merged" /\ last.orphaned
  /\ last.source_canonical_id \notin Live(db)
  /\ last.target \in Live(db)

\* C6: when a batch has returned, the rows a merge of it was to change when it
\* raised after its first write (its alias row, the source and the target
\* canonical entity) are stored as they were before that merge started, unless
\* a later merge of the batch wrote the row.
C6_Atomic ==
  (last.op = "batch_finish" /\ batch.failed.present)
  => LET f == batch.failed
     IN /\ f.alias_ok => db.entity_aliases[f.source] = f.alias
        /\ f.sc_ok => Row(db.canonical_entities, f.sc) = f.sc_row
        /\ f.tc_ok => Row(db.canonical_entities, f.tc) = f.tc_row

\* C7: merge_entities with a source entity that has no alias row (and no
\* statement raising) raises ValueError and writes nothing; in a batch the
\* candidate is counted in errors, in no other counter, and the loop goes on.
C7_MissingSourceAlias ==
  [][(/\ MergeCalled(last')
      /\ last'.source \notin Aliased(conn)
      /\ batch'.faults = batch.faults)
     => /\ last'.status = "ValueError"
        /\ conn' = conn /\ db' = db
        /\ batch'.active
        /\ batch'.done = batch.done + 1
        /\ batch'.errors = batch.errors + 1
        /\ batch'.merged = batch.merged
        /\ batch'.skipped = batch.skipped
        /\ batch'.rejected = batch.rejected]_vars

\* The first candidate of a two-candidate batch had a source without an alias
\* row: merge_entities raised ValueError, the candidate is the batch's one
\* error, and the loop stands before the second candidate.
C7_Witness ==
  /\ MergeCalled(last) /\ last.status = "ValueError"
  /\ last.source \notin Aliased(conn)
  /\ batch.active /\ batch.total = 2 /\ batch.done = 1
  /\ batch.errors = 1 /\ batch.merged = 0 /\ batch.skipped = 0

\* C8: merge_entities with a target that is not a live canonical entity fails
\* and changes nothing.
C8_MissingTarget ==
  [][(MergeCalled(last') /\ last'.target \notin Live(db))
     => (last'.status \notin {"merged", "already_merged"} /\ db' = db)]_vars

\* C9: when a batch calls merge_entities for a candidate whose two recorded
\* counts differ, the source is the entity with the lower count and the target
\* is the canonical id the other entity's alias holds in the graph at that
\* moment.
C9_SourceTarget ==
  [][(MergeCalled(last') /\ last'.caller \in {"auto", "llm"}
      /\ last'.order # "tie")
     => LET lo == IF last'.order = "first_more" THEN last'.e2 ELSE last'.e1
            hi == IF last'.order = "first_more" THEN last'.e1 ELSE last'.e2
        IN /\ last'.source = lo
           /\ hi \in Aliased(conn)
           /\ last'.target = conn.entity_aliases[hi].canonical_id]_vars

\* A candidate was merged into a canonical entity that is not the one its
\* target entity was seeded with: the target was read from the graph as an
\* earlier merge of the batch left it.
C9_Witness ==
  /\ MergeCalled(last) /\ last.caller = "llm" /\ last.status = "merged"
  /\ last.order = "second_more" /\ last.source = last.e1
  /\ last.target # last.e2

\* C10 as claimed: a candidate with equal counts that a batch merges is merged
\* with entity1 as the source and entity2's canonical as the target.
C10_TieSecondIsTarget ==
  [][(MergeCalled(last') /\ last'.caller \in {"auto", "llm"}
      /\ last'.order = "tie" /\ last'.status = "merged")
     => /\ last'.source = last'.e1
        /\ last'.e2 \in Aliased(conn)
        /\ last'.target = conn.entity_aliases[last'.e2].canonical_id]_vars

\* C10 as amended: for a candidate with equal counts both batches pass entity2
\* as the source and the canonical id of entity1's alias as the target.
C10_TieFirstIsTarget ==
  [][(MergeCalled(last') /\ last'.caller \in {"auto", "llm"}
      /\ last'.order = "tie")
     => /\ last'.source = last'.e2
        /\ last'.e1 \in Aliased(conn)
        /\ last'.target = conn.entity_aliases[last'.e1].canonical_id]_vars

\* A candidate with equal counts was merged by batch_auto_merge.
C10_Witness ==
  /\ MergeCalled(last) /\ last.caller = "auto" /\ last.order = "tie"
  /\ last.status = "merged"
  /\ last.source = last.e2
  /\ db.entity_aliases[last.e2].merge_method = "auto"

\* C13: whenever the oracle call of a batch_llm_review iteration fails or its
\* response is malformed (not JSON, not an object, should_merge missing or not
\* a boolean), the candidate is rejected: no merge_entities call, nothing
\* written, rejected goes up by one, and the batch goes on to the next
\* candidate.
C13_OracleFailSafe ==
  [][(last'.caller = "llm" /\ last'.oracle \in {"error", "not_object", "missing",
                                                 "truthy", "falsy"})
     => /\ last'.op = "batch_step" /\ last'.status = "rejected"
        /\ db' = db /\ conn' = conn
        /\ batch'.active
        /\ batch'.done = batch.done + 1
        /\ batch'.rejected = batch.rejected + 1
        /\ batch'.merged = batch.merged]_vars

\* C14: in a batch_llm_review run that is not a dry run, a rejected candidate
\* leaves the store and the connection's view as they are and is counted in
\* rejected; an approved candidate whose target entity has an alias row is
\* passed to merge_entities, and when that merges, the source's alias row
\* holds the target, merge_method "llm" and the confidence of the oracle's
\* decision.
C14_OracleDecision ==
  /\ [][(last'.caller = "llm" /\ last'.status = "rejected")
        => /\ db' = db /\ conn' = conn
           /\ batch'.rejected = batch.rejected + 1
           /\ batch'.merged = batch.merged]_vars
  /\ [][(/\ last'.caller = "llm" /\ last'.oracle = "true" /\ ~batch.dry_run
         /\ last'.status # "target_not_found")
        => MergeCalled(last')]_vars
  /\ [][(MergeCalled(last') /\ last'.caller = "llm" /\ last'.status = "merged")
        => LET alias == db'.entity_aliases[last'.source]
           IN /\ alias.canonical_id = last'.target
              /\ ~alias.is_canonical
              /\ alias.merge_method = "llm"
              /\ alias.merge_confidence = last'.llm_confidence
              /\ batch'.merged = batch.merged + 1]_vars

\* An approved candidate was merged, and its alias row holds the oracle's
\* confidence, which is not the candidate's.
C14_Witness ==
  /\ MergeCalled(last) /\ last.caller = "llm" /\ last.status = "merged"
  /\ last.oracle = "true"
  /\ db.entity_aliases[last.source].merge_method = "llm"
  /\ db.entity_aliases[last.source].merge_confidence = last.llm_confidence
  /\ last.llm_confidence # last.confidence

\* C15: no step of a batch run with dry_run = true, of either batch and with
\* any oracle outcome, changes the store or the connection's view.
C15_DryRunFrame ==
  [][(batch.dry_run \/ batch'.dry_run) => (db' = db /\ conn' = conn)]_vars

\* A dry run of batch_llm_review has counted two approved candidates as
\* merged.
C15_Witness ==
  /\ batch.active /\ batch.dry_run /\ batch.kind = "llm"
  /\ batch.done = 2 /\ batch.merged = 2
  /\ last.status = "would_merge"

Scored(l) == l.op = "calculate_merge_confidence"

\* The policy table in hundredths, in exact arithmetic.
TableBase(d) == IF d = 1 THEN 95 ELSE IF d = 2 THEN 85 ELSE IF d = 3 THEN 70 ELSE 50

TableOverlap(j) ==
  IF AtLeast(j, 4, 5) THEN 10
  ELSE IF AtLeast(j, 1, 2) THEN 5
  ELSE IF Below(j, 3, 10) THEN 0 - 15
  ELSE 0

TableRare(c1, c2) ==
  IF 10 * Min2(c1, c2) < Max2(c1, c2) /\ Max2(c1, c2) > 10 THEN 5 ELSE 0

\* C17: calculate_merge_confidence returns 1.0 for edit distance 0 and
\* otherwise min(1.0, base(d) + overlap(j) + rare(c1, c2)) of the policy
\* table, and the result lies in [0, 1].
C17_PolicyTable ==
  Scored(last)
  => /\ last.confidence =
          (IF last.lev_distance = 0 THEN Double(100)
           ELSE Double(Min2(100, TableBase(last.lev_distance)
                                   + TableOverlap(last.jaccard)
                                   + TableRare(last.count1, last.count2))))
     /\ Double(0) <= last.confidence /\ last.confidence <= Double(100)

\* The token overlap "jeffrey" and "jefffrey" have.
JeffreyJaccard == calculate_jaccard_similarity(Texts[7], Texts[8])

JeffreyScored(l) ==
  /\ Scored(l) /\ l.texts \in ScoreTexts /\ l.lev_distance = 1

\* C18 as claimed: "jeffrey" / "jefffrey" scored with edit distance 1 and the
\* token overlap the two texts have yields a confidence >= 0.95, for any
\* counts and after any calls.
C18_JeffreyAtLeast95 ==
  (JeffreyScored(last) /\ last.jaccard = JeffreyJaccard)
  => last.confidence >= Double(95)

\* C18 as amended: the pair scored with edit distance 1 yields a confidence
\* >= 0.95 exactly when the Jaccard value passed is >= 0.3, after any calls;
\* with the token overlap the two texts have (no common token, 0.0) it is
\* below 0.95 for any counts: 0.95 - 0.15, or 0.95 + 0.05 - 0.15 for a rare
\* variant.
C18_JeffreyByOverlap ==
  JeffreyScored(last)
  => /\ last.confidence >= Double(95) <=> AtLeast(last.jaccard, 3, 10)
     /\ last.jaccard = JeffreyJaccard
          => last.confidence =
               (IF IsRareVariant(last.count1, last.count2)
                THEN FSub(FAdd(Double(95), Double(5)), Double(15))
                ELSE FSub(Double(95), Double(15)))

\* The pair was scored with its own token overlap and came out below 0.80.
C18_Witness ==
  /\ JeffreyScored(last) /\ last.jaccard = JeffreyJaccard
  /\ last.jaccard.num = 0
  /\ last.confidence < Double(80)

\* The candidates of a report, list after list, and the number of places a
\* candidate has in a list.
Occurrences(list, c) == Cardinality({k \in DOMAIN list : list[k] = c})

\* C11: the report generate_merge_report has just made of the store holds
\* every candidate the finder returns in exactly one of its three lists, the
\* list of the candidate's confidence band (>= 0.95, [0.80, 0.95), [0.70,
\* 0.80)); and in every report the three counts are the lengths of the lists
\* and add up to total_candidates.
C11_TierPartition ==
  /\ report.present =>
       /\ report.auto_merge_count = Len(report.auto_merge)
       /\ report.llm_review_count = Len(report.llm_review)
       /\ report.manual_review_count = Len(report.manual_review)
       /\ report.auto_merge_count + report.llm_review_count
            + report.manual_review_count = report.total_candidates
  /\ last.op = "generate_merge_report" =>
       LET candidates == find_merge_candidates(db, report.min_occurrences, 3,
                                               Double(70), 200)
       IN /\ report.total_candidates = Len(candidates)
          /\ \A i \in DOMAIN candidates :
               LET c == candidates[i]
               IN /\ Occurrences(report.auto_merge \o report.llm_review \o report.manual_review, c) = 1
                  /\ Occurrences(report.auto_merge, c) = 1
                       <=> c.confidence >= Double(95)
                  /\ Occurrences(report.llm_review, c) = 1
                       <=> (Double(80) <= c.confidence /\ c.confidence < Double(95))
                  /\ Occurrences(report.manual_review, c) = 1
                       <=> (Double(70) <= c.confidence /\ c.confidence < Double(80))

\* C11 witness: a report just generated with candidates in all three lists,
\* one of them at exactly 0.95.
C11_Witness ==
  /\ last.op = "generate_merge_report"
  /\ report.llm_review_count > 0
  /\ report.manual_review_count > 0
  /\ \E i \in DOMAIN report.auto_merge :
       report.auto_merge[i].confidence = Double(95)

\* C12: whatever min_confidence and max_confidence the batches are given,
\* on any report of generate_merge_report, a call of merge_entities by a
\* batch has a candidate of confidence >= 0.80, one by batch_auto_merge a
\* candidate of confidence >= 0.95, and an alias row written with method
\* "auto" has a confidence >= 0.95.
C12_ManualNeverExecuted ==
  [][/\ MergeCalled(last') =>
          /\ last'.confidence >= Double(80)
          /\ last'.caller = "auto" => last'.confidence >= Double(95)
     /\ \A e \in Aliased(db') :
          db'.entity_aliases[e].merge_method = "auto"
            => db'.entity_aliases[e].merge_confidence >= Double(95)]_vars

\* C12 witness: batch_llm_review, started with min_confidence 0 on a report
\* whose manual_review list is not empty, has merged a candidate.
C12_Witness ==
  /\ MergeCalled(last) /\ last.status = "merged" /\ last.caller = "llm"
  /\ batch.active /\ batch.min_confidence = Double(0)
  /\ report.manual_review_count > 0

\* C16: from any store and report, batch_auto_merge returns the same merged
\* count and the same merges log with dry_run = true as with dry_run = false.
C16_DryRunFidelity ==
  (report.present /\ ~batch.active) =>
    \A m \in PipelineMin :
      LET dry == batch_auto_merge(db, report, m, TRUE)
          real == batch_auto_merge(db, report, m, FALSE)
      IN dry.merged = real.merged /\ dry.merges = real.merges

\* The entities of the two scenarios in a store, and the candidates a report
\* holds for a pair of entities.
JeffreyPair(d, e1, e2) ==
  /\ e1 \in DOMAIN d.entities /\ e2 \in DOMAIN d.entities
  /\ d.entities[e1] = [key |-> 1, occurrence_count |-> 50]
  /\ d.entities[e2] = [key |-> 2, occurrence_count |-> 2]

SouthPair(d, e1, e2) ==
  /\ e1 \in DOMAIN d.entities /\ e2 \in DOMAIN d.entities
  /\ {d.entities[e1].key, d.entities[e2].key} = {3, 4}

Canonical(d, e) == e \in Aliased(d) /\ d.entity_aliases[e].is_canonical

Proposed(list, e1, e2) ==
  {k \in DOMAIN list : {list[k].e1, list[k].e2} = {e1, e2}}

\* C19 as stated: in a report just generated of a store where 'jeffrey
\* epstein' (count 50) and 'jefffrey epstein' (count 2) are canonical, the
\* pair is in auto_merge with edit distance 1, the good-overlap and the
\* rare-variant boost, and confidence 1.0.
C19_JeffreyEpsteinBothBoosts ==
  last.op = "generate_merge_report" =>
    \A e1, e2 \in EntityIds :
      (JeffreyPair(db, e1, e2) /\ Canonical(db, e1) /\ Canonical(db, e2)) =>
        \E k \in Proposed(report.auto_merge, e1, e2) :
          LET c == report.auto_merge[k]
          IN /\ c.distance = 1
             /\ c.confidence = Double(100)
             /\ c.reasons = <<"Edit distance=1 (likely typo)",
                              "Good token overlap", "Rare variant">>

\* C19 amended: the pair is proposed when min_occurrences <= 2 and only then;
\* it has edit distance 1 and Jaccard 1/3, so no overlap boost, and with the
\* rare-variant boost a confidence of 0.95 + 0.05 = 1.0 in auto_merge; and
\* the step of a real batch_auto_merge on it, both still canonical, merges
\* the count-2 entity into the canonical entity of the count-50 entity with
\* method "auto".
C19_JeffreyEpstein ==
  /\ [](
      last.op = "generate_merge_report" =>
        \A e1, e2 \in EntityIds :
          (JeffreyPair(db, e1, e2) /\ Canonical(db, e1) /\ Canonical(db, e2)) =>
            IF report.min_occurrences <= 2
            THEN /\ Proposed(report.llm_review \o report.manual_review, e1, e2) = {}
                 /\ \E k \in Proposed(report.auto_merge, e1, e2) :
                      LET c == report.auto_merge[k]
                      IN /\ c.e1 = e1 /\ c.e2 = e2
                         /\ c.distance = 1
                         /\ c.jaccard = [num |-> 1, den |-> 3]
                         /\ c.confidence = Double(100)
                         /\ c.reasons = <<"Edit distance=1 (likely typo)",
                                          "Rare variant">>
            ELSE Proposed(report.auto_merge \o report.llm_review \o report.manual_review, e1, e2) = {})
  /\ [][
      (/\ last'.caller = "auto" /\ last'.op \in {"merge_entities", "batch_step"}
       /\ JeffreyPair(db, last'.e1, last'.e2)
       /\ Canonical(conn, last'.e1) /\ Canonical(conn, last'.e2)
       /\ ~batch.dry_run)
      => /\ MergeCalled(last') /\ last'.status = "merged"
         /\ last'.source = last'.e2
         /\ last'.target = conn.entity_aliases[last'.e1].canonical_id
         /\ db'.entity_aliases[last'.e2].canonical_id = last'.target
         /\ db'.entity_aliases[last'.e2].merge_method = "auto"
         /\ db'.entity_aliases[last'.e2].merge_confidence = Double(100)]_vars

\* C19 witness: batch_auto_merge has merged the count-2 'jefffrey epstein'
\* into the canonical entity of the count-50 'jeffrey epstein'.
C19_Witness ==
  /\ MergeCalled(last) /\ last.caller = "auto" /\ last.status = "merged"
  /\ JeffreyPair(db, last.e1, last.e2)
  /\ last.source = last.e2
  /\ last.confidence = Double(100)

\* C20 as stated: in a report just generated of a store where 'south africa'
\* and 'south america' are canonical with enough occurrences, the pair is in
\* manual_review with edit distance 3, Jaccard 0.5 and confidence 0.75.
C20_SouthAfricaManual ==
  last.op = "generate_merge_report" =>
    \A e1, e2 \in QueryRows(db, report.min_occurrences) :
      SouthPair(db, e1, e2) =>
        \E k \in Proposed(report.manual_review, e1, e2) :
          LET c == report.manual_review[k]
          IN /\ c.distance = 3
             /\ c.jaccard = [num |-> 1, den |-> 2]
             /\ c.confidence = Double(75)

\* C20 amended: the pair has edit distance 2 and Jaccard 1/3, scores 0.85
\* (0.90 with the rare-variant boost) and is in llm_review only; no step of
\* batch_auto_merge is on it, and each step of batch_llm_review on it asks
\* the oracle and calls merge_entities only on its approval.
C20_SouthAfrica ==
  /\ [](
      last.op = "generate_merge_report" =>
        \A e1, e2 \in QueryRows(db, report.min_occurrences) :
          SouthPair(db, e1, e2) =>
            /\ Proposed(report.auto_merge \o report.manual_review, e1, e2) = {}
            /\ \E k \in Proposed(report.llm_review, e1, e2) :
                 LET c == report.llm_review[k]
                 IN /\ c.distance = 2
                    /\ c.jaccard = [num |-> 1, den |-> 3]
                    /\ c.confidence = IF IsRareVariant(c.c1, c.c2)
                                      THEN Double(90) ELSE Double(85))
  /\ [][
      /\ (last'.caller = "auto" /\ last'.op \in {"merge_entities", "batch_step"})
           => ~SouthPair(db, last'.e1, last'.e2)
      /\ (/\ last'.caller = "llm" /\ last'.op \in {"merge_entities", "batch_step"}
          /\ SouthPair(db, last'.e1, last'.e2))
           => /\ last'.oracle \in {"error", "true", "false"}
              /\ MergeCalled(last') => last'.oracle = "true"]_vars

\* C20 witness: batch_llm_review has submitted the pair to the oracle and,
\* on its approval, merged it.
C20_Witness ==
  /\ MergeCalled(last) /\ last.caller = "llm" /\ last.status = "merged"
  /\ last.oracle = "true"
  /\ SouthPair(db, last.e1, last.e2)

\* C21: the two entities of every pair find_merge_candidates compares, and
\* of every pair it returns, have normalized texts with the same first three
\* characters (the whole text of a shorter one), whatever the parameters.
C21_BlockingSoundness ==
  last.op = "find_merge_candidates" =>
    \A p \in last.compared
            \cup {<<last.candidates[i].e1, last.candidates[i].e2>> :
                    i \in DOMAIN last.candidates} :
      LET t1 == NormalizedText(db, p[1])
          t2 == NormalizedText(db, p[2])
      IN SubSeq(t1, 1, Min2(3, Len(t1))) = SubSeq(t2, 1, Min2(3, Len(t2)))

\* C21 witness: a call that returns a pair while the rows of its query hold
\* 'south america' and 'soth america', one edit apart in two blocks.
C21_Witness ==
  /\ last.op = "find_merge_candidates"
  /\ Len(last.candidates) > 0
  /\ \E e1, e2 \in QueryRows(db, last.min_occurrences) :
       /\ db.entities[e1].key = 4 /\ db.entities[e2].key = 9
       /\ last.max_distance >= 1 /\ last.min_confidence <= Double(95)

\* C22: every pair find_merge_candidates returns is of two different
\* entities, is returned once, and both entities have the type asked for,
\* at least min_occurrences occurrences and an alias row with is_canonical
\* in the store the call reads; the lengths differ by at most max_distance,
\* the texts share a token, their edit distance is at most max_distance and
\* the confidence is at least min_confidence.
C22_CandidateSoundness ==
  last.op = "find_merge_candidates" =>
    \A i \in DOMAIN last.candidates :
      LET c == last.candidates[i]
          t1 == NormalizedText(db, c.e1)
          t2 == NormalizedText(db, c.e2)
      IN /\ c.e1 # c.e2
         /\ \A j \in DOMAIN last.candidates :
              j # i => {last.candidates[j].e1, last.candidates[j].e2} # {c.e1, c.e2}
         /\ \A e \in {c.e1, c.e2} :
              /\ e \in DOMAIN db.entities
              /\ TypeOf(db.entities[e].key) = "person"
              /\ db.entities[e].occurrence_count >= last.min_occurrences
              /\ e \in Aliased(db) /\ db.entity_aliases[e].is_canonical
         /\ Abs(Len(t1) - Len(t2)) <= last.max_distance
         /\ Tokens(t1) \cap Tokens(t2) # {}
         /\ Levenshtein(t1, t2) <= last.max_distance
         /\ c.distance = Levenshtein(t1, t2)
         /\ c.confidence >= last.min_confidence

\* C22 witness: a call that returns a pair from a store where an entity of
\* the same block, with enough occurrences, has been merged away.
C22_Witness ==
  /\ last.op = "find_merge_candidates"
  /\ \E i \in DOMAIN last.candidates, e \in Aliased(db) :
       /\ ~db.entity_aliases[e].is_canonical
       /\ db.entities[e].occurrence_count >= last.min_occurrences
       /\ Prefix(NormalizedText(db, e))
            = Prefix(NormalizedText(db, last.candidates[i].e1))

\* C23: each iteration of a batch's loop handles one more candidate and
\* counts it in exactly one of merged, skipped (auto), rejected (llm) and
\* errors, so the counters add up to the number of candidates handled, and a
\* batch returns only when that is total_candidates; a candidate whose
\* target alias is missing or whose merge_entities call raises is counted in
\* errors, and the loop goes on.
C23_BatchAccounting ==
  /\ [](batch.active =>
          /\ batch.done <= batch.total
          /\ batch.merged + batch.skipped + batch.rejected + batch.errors
               = batch.done
          /\ (batch.kind = "auto" => batch.rejected = 0)
          /\ (batch.kind = "llm" => batch.skipped = 0))
  /\ [][/\ (batch.active /\ last'.op \in {"merge_entities", "batch_step"}) =>
           /\ batch'.active
           /\ batch'.total = batch.total
           /\ batch'.done = batch.done + 1
           /\ batch'.merged >= batch.merged /\ batch'.skipped >= batch.skipped
           /\ batch'.rejected >= batch.rejected /\ batch'.errors >= batch.errors
           /\ (last'.status \notin {"merged", "would_merge", "already_merged",
                                     "rejected"}
                => batch'.errors = batch.errors + 1)
        /\ (batch.active /\ ~batch'.active) => batch.done = batch.total]_vars

\* C23 witness: a batch of two candidates stands at its return with one
\* candidate merged after the merge_entities call for the other had raised.
C23_Witness ==
  /\ batch.active /\ batch.total = 2 /\ batch.done = 2
  /\ batch.errors = 1 /\ batch.merged = 1 /\ batch.faults = 1
  /\ MergeCalled(last) /\ last.status = "merged"

\* C24: when two merge_entities calls with the same target have returned and
\* the sum of total_mentions over the live canonical entities differs from
\* the sum of occurrence_count, a statement of one call ran between two
\* statements of the other: the two calls run one after the other leave the
\* sums equal.
C24_SerialConserves ==
  (/\ \A p \in Procs : txn[p].pc \in {0, 9}
   /\ (\A p \in Procs : txn[p].pc = 9) => txn[1].target = txn[2].target
   /\ TotalMentions(db) # TotalOccurrences(db))
  => \E p \in Procs : ~txn[p].alone

\* C24 witness: two interleaved calls with the same target have both
\* returned "merged", and the two sums differ.
C24_Witness ==
  /\ \A p \in Procs : txn[p].pc = 9 /\ txn[p].status = "merged"
  /\ txn[1].target = txn[2].target
  /\ \E p \in Procs : ~txn[p].alone
  /\ TotalMentions(db) # TotalOccurrences(db)

\* C25: no two entity rows share a normalized (text, type); an extraction
\* keeps every row, and leaves each normalized (text, type) with its count
\* before plus the number of its observations in the document (a new row
\* starts from none); initialize_canonical_entities and merge_entities leave
\* the entity rows as they are.
C25_EntityStore ==
  /\ [](\A e1, e2 \in DOMAIN db.entities :
          db.entities[e1].key = db.entities[e2].key => e1 = e2)
  /\ [][IF last'.op = "extract_and_store_entities"
        THEN /\ \A e \in DOMAIN db.entities :
                  /\ e \in DOMAIN db'.entities
                  /\ db'.entities[e].key = db.entities[e].key
             /\ \A e \in DOMAIN db'.entities :
                  db'.entities[e].occurrence_count
                    = Cardinality({i \in DOMAIN last'.doc :
                                     last'.doc[i] = db'.entities[e].key})
                      + (IF e \in DOMAIN db.entities
                         THEN db.entities[e].occurrence_count ELSE 0)
             /\ \A i \in DOMAIN last'.doc :
                  ExistingEntity(db'.entities, last'.doc[i]) # {}
        ELSE db'.entities = db.entities]_vars

\* C25 witness: an extraction after initialization has counted a second
\* mention of an entity and created a row for a new one.
C25_Witness ==
  /\ last.op = "extract_and_store_entities"
  /\ db.entity_aliases # <<>>
  /\ Len(db.entities) > Len(db.entity_aliases)
  /\ \E i \in DOMAIN last.doc, e \in DOMAIN db.entities :
       /\ db.entities[e].key = last.doc[i]
       /\ db.entities[e].occurrence_count = 2

\* C26: while a batch runs on a graph in which some live canonical entity's
\* total_mentions differs from the sum of its members' occurrence_count, or
\* some entity has no alias row, no candidate is merged any more.
C26_HaltOnBroken ==
  [][(/\ batch.active
      /\ \/ \E c \in Live(conn) :
               conn.canonical_entities[c].total_mentions
                 # MemberOccurrences(conn, c)
         \/ \E e \in DOMAIN conn.entities : e \notin Aliased(conn))
     => ~(MergeCalled(last') /\ last'.status = "merged")]_vars

\* C27: every alias row's merge_confidence lies in [0.0, 1.0].
C27_ConfidenceRange ==
  \A e \in Aliased(db) :
    /\ Double(0) <= db.entity_aliases[e].merge_confidence
    /\ db.entity_aliases[e].merge_confidence <= Double(100)

\* C28: after a run of batch_auto_merge (not a dry run) over the report just
\* generated, the source entity and the target entity of every entry of its
\* merges log have the same canonical entity.
C28_MergedPairsTogether ==
  last.op = "generate_merge_report" =>
    LET stats == batch_auto_merge(db, report, Double(95), FALSE)
    IN \A i \in DOMAIN stats.merges :
         stats.db.entity_aliases[stats.merges[i].source].canonical_id
           = stats.db.entity_aliases[stats.merges[i].target].canonical_id

\* C29: each live canonical entity has exactly one member alias with
\* is_canonical, that member is the entity whose text is the canonical_text,
\* and an alias with is_canonical has merge_method "initial" and points to
\* the canonical entity made of its own text.
C29_ClusterKeepsSeed ==
  /\ \A c \in Live(db) :
       \E e \in Members(db, c) :
         /\ db.entity_aliases[e].is_canonical
         /\ db.entities[e].key = db.canonical_entities[c].canonical_text
         /\ \A f \in Members(db, c) : db.entity_aliases[f].is_canonical => f = e
  /\ \A e \in Aliased(db) :
       db.entity_aliases[e].is_canonical =>
         /\ db.entity_aliases[e].merge_method = "initial"
         /\ db.entity_aliases[e].canonical_id \in Live(db)
         /\ db.canonical_entities[db.entity_aliases[e].canonical_id].canonical_text
              = db.entities[e].key

\* C30: invalidate_dependent_steps(Y) removes the result of every step that
\* has completed successfully and depends on Y, and keeps the results of the
\* steps that do not depend on Y.
C30_InvalidateDependents ==
  [][last'.op = "invalidate_dependent_steps" =>
       \A i \in DOMAIN manifest :
         IF last'.step_name \in depends_on(manifest[i].step_name)
         THEN manifest[i].status = "success"
                => get_step(manifest', manifest[i].step_name) = {}
         ELSE get_step(manifest', manifest[i].step_name) # {}]_vars

====
